---- MODULE Spec2Model ----
(***************************************************************************)
(* Model of scripts/fix_anchor_points.py: the record-by-record anchor      *)
(* correction run (Nominatim lookup, Overpass entrance snap, plausibility  *)
(* check, write-back and changelog).                                       *)
(*                                                                         *)
(* Units: coordinates are fixed-point tenths of a degree (54.9 -> 549),    *)
(* durations are tenths of a second (1.1 s -> 11).                         *)
(* Optional values: None is <<>>, a present value v is <<v>>.              *)
(***************************************************************************)
EXTENDS Integers, Sequences, FiniteSets, TLC

VARIABLES
    df,          \* the data frame: a sequence of rows
    input,       \* the rows as read by read_csv at the start of this run
    idx,         \* 1-based position of the row being processed
    pc,          \* position of main() / of the pure-function harness
    run,         \* 1: first run, 2: re-run on the first run's output
    lat, lon, confidence, needs_review, method, intent, notes,  \* loop locals
    nom,         \* result of nominatim_search (None or <<candidate>>)
    ent,         \* result of overpass_find_entrance (None or <<lat, lon, el>>)
    els,         \* elements of the Overpass response being examined
    changelog,   \* list of changelog dicts
    outCsv,      \* rows written to OUT_CSV (<<>> until written)
    logCsv,      \* rows written to CHANGELOG_CSV
    prevOut,     \* OUT_CSV of the first run, kept for the re-run comparison
    resp,        \* per row: the responses the two services gave in run 1
    sinceNom,    \* time since the last request to Nominatim (saturating)
    sinceOvp,    \* time since the last request to Overpass (saturating)
    gapNom,      \* time between the last two Nominatim requests
    gapOvp,      \* time between the last two Overpass requests
    reqLog,      \* requests sent in this run: <<service, row>> in send order
    noteLog,     \* per row written in this run: its list of notes before the join
    plausible,   \* result of is_plausible_uk checked on its own (None before)
    script,      \* the bulk upload script that runs
    total,       \* number of rows the upload script has loaded
    upI,         \* the loop variable i of the batch loop (offset of the batch)
    txn,         \* rows executed in the open transaction, not yet committed
    committed,   \* the batches committed so far, in commit order
    sent,        \* the batches handed to execute_values so far
    conn,        \* the database connection: "none", "open" or "closed"
    failedBatch  \* 0, or the number of the batch that raised

locals == <<lat, lon, confidence, needs_review, method, intent, notes>>
clocks == <<sinceNom, sinceOvp, gapNom, gapOvp>>
logs   == <<reqLog, noteLog>>
files  == <<outCsv, logCsv, prevOut>>
upload == <<script, total, upI, txn, committed, sent, conn, failedBatch>>
aside  == <<plausible, script, total, upI, txn, committed, sent, conn,
            failedBatch>>
vars == <<df, input, idx, pc, run, lat, lon, confidence, needs_review, method,
          intent, notes, nom, ent, els, changelog, outCsv, logCsv, prevOut,
          resp, sinceNom, sinceOvp, gapNom, gapOvp, reqLog, noteLog,
          plausible, script, total, upI, txn, committed, sent, conn,
          failedBatch>>

----------------------------------------------------------------------------
(* Bounds *)
MaxRecords == 2
MaxEls == 3
MaxLatency == 1

(* Configuration (lines 23-28) *)
NOMINATIM_SLEEP_S == 11
OVERPASS_SLEEP_S == 11

None == <<>>
Some(x) == <<x>>
Min(a, b) == IF a <= b THEN a ELSE b

----------------------------------------------------------------------------
\* mutant: the bounds are exclusive
is_plausible_uk_Exclusive(la, lo) ==
    498 < la /\ la < 609 /\ -86 < lo /\ lo < 18

(* is_plausible_uk: 49.8 <= lat <= 60.9 and -8.6 <= lon <= 1.8 *)
is_plausible_uk(la, lo) == 498 <= la /\ la <= 609 /\ -86 <= lo /\ lo <= 18

(* float(text) for a decimal text with one fractional digit *)
float(s) == IF s.neg THEN 0 - (s.whole * 10 + s.frac) ELSE s.whole * 10 + s.frac

(* " ".join(notes) *)
RECURSIVE join(_)
join(ns) ==
    IF Len(ns) = 0 THEN ""
    ELSE IF Len(ns) = 1 THEN ns[1]
    ELSE ns[1] \o " " \o join(Tail(ns))

----------------------------------------------------------------------------
(* overpass_find_entrance, lines 61-76: selection among the elements *)

\* def score(el), lines 66-72; tags is a mapping (empty when absent or null)
score(el) ==
    IF "entrance" \in DOMAIN el.tags /\ el.tags["entrance"] = "main" THEN 0
    ELSE IF "entrance" \in DOMAIN el.tags THEN 1
    ELSE 2

\* mutant: an unstable sort, equal keys change places
RECURSIVE insert_unstable(_, _)
insert_unstable(el, placed) ==
    IF placed = <<>> THEN <<el>>
    ELSE IF score(placed[1]) < score(el)
         THEN <<placed[1]>> \o insert_unstable(el, Tail(placed))
         ELSE <<el>> \o placed

\* list.sort(key=score) is a stable sort: an element goes behind every
\* element already placed whose key is not greater.
RECURSIVE insert_sorted(_, _)
insert_sorted(el, placed) ==
    IF placed = <<>> THEN <<el>>
    ELSE IF score(placed[1]) <= score(el)
         THEN <<placed[1]>> \o insert_sorted(el, Tail(placed))
         ELSE <<el>> \o placed

RECURSIVE sort_prefix(_, _)
sort_prefix(xs, n) ==
    IF n = 0 THEN <<>> ELSE insert_sorted(xs[n], sort_prefix(xs, n - 1))

sort_by_score(xs) == sort_prefix(xs, Len(xs))

\* lines 61-76: None for no elements, else (lat, lon, best) of the first
\* element after the sort
find_entrance(xs) ==
    IF xs = <<>> THEN None
    ELSE LET best == sort_by_score(xs)[1]
         IN  Some([lat |-> best.lat, lon |-> best.lon, el |-> best])

----------------------------------------------------------------------------
(* Inputs *)

Dec(n, w, f) == [neg |-> n, whole |-> w, frac |-> f]

\* Nominatim candidates (jsonv2: lat and lon are decimal texts)
NomNewcastle == [lat |-> Dec(FALSE, 54, 9), lon |-> Dec(TRUE, 1, 6)]
NomOutside   == [lat |-> Dec(FALSE, 61, 0), lon |-> Dec(FALSE, 0, 0)]
NominatimBodies == {<<>>, <<NomNewcastle>>, <<NomOutside>>}

\* Overpass nodes
ElMain    == [lat |-> 550, lon |-> -16, tags |-> [entrance |-> "main"]]
ElYes     == [lat |-> 551, lon |-> -16, tags |-> [entrance |-> "yes"]]
ElService == [lat |-> 552, lon |-> -17, tags |-> [entrance |-> "service"]]
ElHighway == [lat |-> 553, lon |-> -16, tags |-> [highway |-> "entrance"]]
ElFarMain == [lat |-> 611, lon |-> 0,   tags |-> [entrance |-> "main"]]
Elements == {ElMain, ElYes, ElService, ElHighway, ElFarMain}

\* responses of the Overpass service used in the whole-run specification
OverpassBodies ==
    { <<>>,
      <<ElHighway, ElYes, ElMain>>,
      <<ElService, ElYes>>,
      <<ElHighway>>,
      <<ElFarMain>> }

Causes == {"timeout"}

OkResponse(body)  == [status |-> "ok", cause |-> "", body |-> body]
Failure(cause)    == [status |-> "error", cause |-> cause, body |-> <<>>]
NoCall            == [status |-> "none", cause |-> "", body |-> <<>>]

NominatimResponses ==
    {OkResponse(b) : b \in NominatimBodies} \cup {Failure(c) : c \in Causes}
OverpassResponses ==
    {OkResponse(b) : b \in OverpassBodies} \cup {Failure(c) : c \in Causes}

\* rows of INPUT_CSV; the long-mode columns are missing from the file and
\* are added as None (lines 85-97)
Row(id, name, postcode, la, lo) ==
    [id |-> id, name |-> name, postcode |-> postcode,
     anchor_type |-> "civic", subtype |-> "library",
     latitude |-> la, longitude |-> lo,
     lat_corrected |-> None, lon_corrected |-> None, point_intent |-> None,
     correction_method |-> None, confidence_score |-> None,
     change_note |-> None, source_checked |-> None,
     last_verified_date |-> None, needs_manual_review |-> None]

\* the i-th row of INPUT_CSV: anchors with blank and with stale coordinates
InputRow(i) ==
    IF i % 2 = 1
    THEN Row(100 + i, " Acme Library ", "NE1 1AA", None, None)
    ELSE Row(100 + i, "Town Hall", "NE30 1AB", Some(540), Some(-20))

InputFile(n) == [i \in 1..n |-> InputRow(i)]

SeqsUpTo(S, n) == UNION {[1..k -> S] : k \in 0..n}

\* str(...).strip()
strip(s) == IF s = " Acme Library " THEN "Acme Library" ELSE s

\* Elapsed times are kept up to the longer of the two throttle intervals:
\* anything longer is as good as "long ago".
Saturation ==
    IF NOMINATIM_SLEEP_S >= OVERPASS_SLEEP_S THEN NOMINATIM_SLEEP_S
    ELSE OVERPASS_SLEEP_S
Elapse(t, d) == Min(t + d, Saturation)

\* date.today().isoformat() (line 82); the re-run happens on a later day
today == IF run = 1 THEN "2026-01-05" ELSE "2026-01-06"

\* the variables of the other programs of the repository, at rest
AsideIdle ==
    /\ plausible = None
    /\ script = "" /\ total = 0 /\ upI = 0
    /\ txn = <<>> /\ committed = <<>> /\ sent = <<>>
    /\ conn = "none" /\ failedBatch = 0

----------------------------------------------------------------------------
(* main() *)

\* lines 80-105: read_csv, missing columns added, empty changelog
Init ==
    /\ \E n \in 0..MaxRecords : df = InputFile(n)
    /\ input = df
    /\ idx = 1
    /\ pc = "loop"
    /\ run = 1
    /\ lat = None /\ lon = None /\ confidence = 0 /\ needs_review = FALSE
    /\ method = "fallback" /\ intent = "public_entrance" /\ notes = <<>>
    /\ nom = None /\ ent = None /\ els = <<>>
    /\ changelog = <<>>
    /\ outCsv = <<>> /\ logCsv = <<>> /\ prevOut = <<>>
    /\ resp = <<>>
    /\ sinceNom = Saturation /\ sinceOvp = Saturation
    /\ gapNom = Saturation /\ gapOvp = Saturation
    /\ reqLog = <<>> /\ noteLog = <<>>
    /\ AsideIdle

\* mutant: the notes start from the row's existing change_note
BeginRow_PriorNotes ==
    /\ pc = "loop"
    /\ idx <= Len(df)
    /\ lat' = None /\ lon' = None
    /\ confidence' = 0
    /\ needs_review' = FALSE
    /\ method' = "fallback"
    /\ intent' = "public_entrance"
    /\ notes' = df[idx].change_note
    /\ nom' = None /\ ent' = None /\ els' = <<>>
    /\ resp' = IF run = 1
               THEN Append(resp, [nom |-> NoCall, ovp |-> NoCall])
               ELSE resp
    /\ pc' = "nominatim"
    /\ UNCHANGED <<df, input, idx, run, changelog, files, clocks, logs>>
    /\ UNCHANGED aside

\* mutant: lat and lon initialised once, before the loop
BeginRow_StalePoint ==
    /\ pc = "loop"
    /\ idx <= Len(df)
    /\ confidence' = 0
    /\ needs_review' = FALSE
    /\ method' = "fallback"
    /\ intent' = "public_entrance"
    /\ notes' = <<>>
    /\ nom' = None /\ ent' = None /\ els' = <<>>
    /\ resp' = IF run = 1
               THEN Append(resp, [nom |-> NoCall, ovp |-> NoCall])
               ELSE resp
    /\ pc' = "nominatim"
    /\ UNCHANGED <<df, input, idx, run, lat, lon, changelog, files, clocks,
                   logs>>
    /\ UNCHANGED aside

\* lines 107-122: next row of df.iterrows(), locals reset
BeginRow ==
    /\ pc = "loop"
    /\ idx <= Len(df)
    /\ lat' = None /\ lon' = None
    /\ confidence' = 0
    /\ needs_review' = FALSE
    /\ method' = "fallback"
    /\ intent' = "public_entrance"
    /\ notes' = <<>>
    /\ nom' = None /\ ent' = None /\ els' = <<>>
    /\ resp' = IF run = 1
               THEN Append(resp, [nom |-> NoCall, ovp |-> NoCall])
               ELSE resp
    /\ pc' = "nominatim"
    /\ UNCHANGED <<df, input, idx, run, changelog, files, clocks, logs>>
    /\ UNCHANGED aside

\* nominatim_search, lines 36-47: data[0] if data else None
nominatim_result(body) == IF body = <<>> THEN None ELSE Some(body[1])

\* lines 126-129: the request succeeds; note, then time.sleep
NominatimOK ==
    /\ pc = "nominatim"
    /\ \E r \in NominatimResponses, d \in 0..MaxLatency :
        /\ r.status = "ok"
        /\ run = 2 => r = resp[idx].nom
        /\ nom' = nominatim_result(r.body)
        /\ notes' = Append(notes, "Nominatim OK")
        /\ resp' = IF run = 1 THEN [resp EXCEPT ![idx].nom = r] ELSE resp
        /\ gapNom' = sinceNom
        /\ sinceNom' = Elapse(Elapse(0, d), NOMINATIM_SLEEP_S)
        /\ sinceOvp' = Elapse(Elapse(sinceOvp, d), NOMINATIM_SLEEP_S)
    /\ reqLog' = Append(reqLog, <<"nominatim", idx>>)
    /\ pc' = "poi"
    /\ UNCHANGED <<df, input, idx, run, lat, lon, confidence, needs_review,
                   method, intent, ent, els, changelog, files, gapOvp, noteLog>>
    /\ UNCHANGED aside

\* mutant: a failed request is tried again
NominatimFailed_Retries ==
    /\ pc = "nominatim"
    /\ \E r \in NominatimResponses, d \in 0..MaxLatency :
        /\ r.status = "error"
        /\ run = 2 => r = resp[idx].nom
        /\ notes' = Append(notes, "Nominatim failed: " \o r.cause)
        /\ resp' = IF run = 1 THEN [resp EXCEPT ![idx].nom = r] ELSE resp
        /\ gapNom' = sinceNom
        /\ sinceNom' = Elapse(0, d)
        /\ sinceOvp' = Elapse(sinceOvp, d)
    /\ needs_review' = TRUE
    /\ reqLog' = Append(reqLog, <<"nominatim", idx>>)
    /\ pc' = IF Len(notes) = 0 THEN "nominatim" ELSE "poi"
    /\ UNCHANGED <<df, input, idx, run, lat, lon, confidence, method, intent,
                   nom, ent, els, changelog, files, gapOvp, noteLog>>
    /\ UNCHANGED aside

\* mutant: the failure is swallowed without a note
NominatimFailed_Silent ==
    /\ pc = "nominatim"
    /\ \E r \in NominatimResponses, d \in 0..MaxLatency :
        /\ r.status = "error"
        /\ run = 2 => r = resp[idx].nom
        /\ resp' = IF run = 1 THEN [resp EXCEPT ![idx].nom = r] ELSE resp
        /\ gapNom' = sinceNom
        /\ sinceNom' = Elapse(0, d)
        /\ sinceOvp' = Elapse(sinceOvp, d)
    /\ needs_review' = TRUE
    /\ reqLog' = Append(reqLog, <<"nominatim", idx>>)
    /\ pc' = "poi"
    /\ UNCHANGED <<df, input, idx, run, lat, lon, confidence, method, intent,
                   notes, nom, ent, els, changelog, files, gapOvp, noteLog>>
    /\ UNCHANGED aside

\* lines 130-132: the request raises; note and review flag, no sleep
NominatimFailed ==
    /\ pc = "nominatim"
    /\ \E r \in NominatimResponses, d \in 0..MaxLatency :
        /\ r.status = "error"
        /\ run = 2 => r = resp[idx].nom
        /\ notes' = Append(notes, "Nominatim failed: " \o r.cause)
        /\ resp' = IF run = 1 THEN [resp EXCEPT ![idx].nom = r] ELSE resp
        /\ gapNom' = sinceNom
        /\ sinceNom' = Elapse(0, d)
        /\ sinceOvp' = Elapse(sinceOvp, d)
    /\ needs_review' = TRUE
    /\ reqLog' = Append(reqLog, <<"nominatim", idx>>)
    /\ pc' = "poi"
    /\ UNCHANGED <<df, input, idx, run, lat, lon, confidence, method, intent,
                   nom, ent, els, changelog, files, gapOvp, noteLog>>
    /\ UNCHANGED aside

\* lines 134-140: if nom
PoiMatch ==
    /\ pc = "poi"
    /\ nom # None
    /\ lat' = Some(float(nom[1].lat))
    /\ lon' = Some(float(nom[1].lon))
    /\ method' = "nominatim_poi"
    /\ confidence' = 65
    /\ notes' = Append(notes, "Nominatim POI match")
    /\ pc' = "overpass"
    /\ UNCHANGED <<df, input, idx, run, needs_review, intent, nom, ent, els,
                   changelog, files, resp, clocks, logs>>
    /\ UNCHANGED aside

\* mutant: the else branch does not assign the method
NoMatch_KeepsSentinel ==
    /\ pc = "poi"
    /\ nom = None
    /\ needs_review' = TRUE
    /\ notes' = Append(notes, "No geocode match")
    /\ confidence' = 0
    /\ pc' = "final"
    /\ UNCHANGED <<df, input, idx, run, lat, lon, method, intent, nom, ent,
                   els, changelog, files, resp, clocks, logs>>
    /\ UNCHANGED aside

\* lines 166-171: else (nom is None: empty result, or the request failed)
NoMatch ==
    /\ pc = "poi"
    /\ nom = None
    /\ needs_review' = TRUE
    /\ notes' = Append(notes, "No geocode match")
    /\ confidence' = 0
    /\ method' = "no_match"
    /\ pc' = "final"
    /\ UNCHANGED <<df, input, idx, run, lat, lon, intent, nom, ent, els,
                   changelog, files, resp, clocks, logs>>
    /\ UNCHANGED aside

\* lines 143-147 with 59-76: the request succeeds; the entrance is selected,
\* note, then time.sleep
OverpassOK ==
    /\ pc = "overpass"
    /\ \E r \in OverpassResponses, d \in 0..MaxLatency :
        /\ r.status = "ok"
        /\ run = 2 => r = resp[idx].ovp
        /\ els' = r.body
        /\ ent' = find_entrance(r.body)
        /\ resp' = IF run = 1 THEN [resp EXCEPT ![idx].ovp = r] ELSE resp
        /\ gapOvp' = sinceOvp
        /\ sinceOvp' = Elapse(Elapse(0, d), OVERPASS_SLEEP_S)
        /\ sinceNom' = Elapse(Elapse(sinceNom, d), OVERPASS_SLEEP_S)
    /\ notes' = Append(notes, "Overpass OK")
    /\ reqLog' = Append(reqLog, <<"overpass", idx>>)
    /\ pc' = "entrance"
    /\ UNCHANGED <<df, input, idx, run, lat, lon, confidence, needs_review,
                   method, intent, nom, changelog, files, gapNom, noteLog>>
    /\ UNCHANGED aside

\* mutant: the failure is swallowed without a note
OverpassFailed_Silent ==
    /\ pc = "overpass"
    /\ \E r \in OverpassResponses, d \in 0..MaxLatency :
        /\ r.status = "error"
        /\ run = 2 => r = resp[idx].ovp
        /\ resp' = IF run = 1 THEN [resp EXCEPT ![idx].ovp = r] ELSE resp
        /\ gapOvp' = sinceOvp
        /\ sinceOvp' = Elapse(0, d)
        /\ sinceNom' = Elapse(sinceNom, d)
    /\ needs_review' = TRUE
    /\ reqLog' = Append(reqLog, <<"overpass", idx>>)
    /\ pc' = "entrance"
    /\ UNCHANGED <<df, input, idx, run, lat, lon, confidence, method, intent,
                   notes, nom, ent, els, changelog, files, gapNom, noteLog>>
    /\ UNCHANGED aside

\* mutant: the exception is not caught and main() ends with a traceback
OverpassFailed_Uncaught ==
    /\ pc = "overpass"
    /\ \E r \in OverpassResponses, d \in 0..MaxLatency :
        /\ r.status = "error"
        /\ run = 2 => r = resp[idx].ovp
        /\ resp' = IF run = 1 THEN [resp EXCEPT ![idx].ovp = r] ELSE resp
        /\ gapOvp' = sinceOvp
        /\ sinceOvp' = Elapse(0, d)
        /\ sinceNom' = Elapse(sinceNom, d)
    /\ reqLog' = Append(reqLog, <<"overpass", idx>>)
    /\ pc' = "aborted"
    /\ UNCHANGED <<df, input, idx, run, locals, nom, ent, els, changelog,
                   files, gapNom, noteLog>>
    /\ UNCHANGED aside

\* lines 148-150: the request raises; note and review flag, no sleep
OverpassFailed ==
    /\ pc = "overpass"
    /\ \E r \in OverpassResponses, d \in 0..MaxLatency :
        /\ r.status = "error"
        /\ run = 2 => r = resp[idx].ovp
        /\ notes' = Append(notes, "Overpass failed: " \o r.cause)
        /\ resp' = IF run = 1 THEN [resp EXCEPT ![idx].ovp = r] ELSE resp
        /\ gapOvp' = sinceOvp
        /\ sinceOvp' = Elapse(0, d)
        /\ sinceNom' = Elapse(sinceNom, d)
    /\ needs_review' = TRUE
    /\ reqLog' = Append(reqLog, <<"overpass", idx>>)
    /\ pc' = "entrance"
    /\ UNCHANGED <<df, input, idx, run, lat, lon, confidence, method, intent,
                   nom, ent, els, changelog, files, gapNom, noteLog>>
    /\ UNCHANGED aside

\* mutant: the entrance branch leaves the POI confidence in place
EntranceFound_KeepsPoiConfidence ==
    /\ pc = "entrance"
    /\ ent # None
    /\ LET el == ent[1].el
           ent_tag == IF "entrance" \in DOMAIN el.tags
                      THEN Some(el.tags["entrance"]) ELSE None
       IN  /\ lat' = Some(ent[1].lat)
           /\ lon' = Some(ent[1].lon)
           /\ intent' = IF ent_tag = Some("main") THEN "main_entrance"
                        ELSE "entrance_nearby"
    /\ method' = "overpass_entrance"
    /\ notes' = Append(notes, "Entrance node found")
    /\ pc' = "final"
    /\ UNCHANGED <<df, input, idx, run, confidence, needs_review, nom, ent,
                   els, changelog, files, resp, clocks, logs>>
    /\ UNCHANGED aside

\* lines 152-159: if ent
EntranceFound ==
    /\ pc = "entrance"
    /\ ent # None
    /\ LET el == ent[1].el
           ent_tag == IF "entrance" \in DOMAIN el.tags
                      THEN Some(el.tags["entrance"]) ELSE None
       IN  /\ lat' = Some(ent[1].lat)
           /\ lon' = Some(ent[1].lon)
           /\ intent' = IF ent_tag = Some("main") THEN "main_entrance"
                        ELSE "entrance_nearby"
    /\ method' = "overpass_entrance"
    /\ confidence' = 85
    /\ notes' = Append(notes, "Entrance node found")
    /\ pc' = "final"
    /\ UNCHANGED <<df, input, idx, run, needs_review, nom, ent, els,
                   changelog, files, resp, clocks, logs>>
    /\ UNCHANGED aside

\* mutant: the else branch does not set the review flag
NoEntrance_NoFlag ==
    /\ pc = "entrance"
    /\ ent = None
    /\ notes' = Append(notes,
          "No entrance node; using POI location (likely centroid/site point)")
    /\ confidence' = 60
    /\ pc' = "final"
    /\ UNCHANGED <<df, input, idx, run, lat, lon, needs_review, method, intent,
                   nom, ent, els, changelog, files, resp, clocks, logs>>
    /\ UNCHANGED aside

\* mutant: the else branch leaves the POI confidence in place
NoEntrance_KeepsPoiConfidence ==
    /\ pc = "entrance"
    /\ ent = None
    /\ needs_review' = TRUE
    /\ notes' = Append(notes,
          "No entrance node; using POI location (likely centroid/site point)")
    /\ pc' = "final"
    /\ UNCHANGED <<df, input, idx, run, lat, lon, confidence, method, intent,
                   nom, ent, els, changelog, files, resp, clocks, logs>>
    /\ UNCHANGED aside

\* mutant: the else branch applies only to an empty response
NoEntrance_OnlyWhenEmpty ==
    /\ pc = "entrance"
    /\ ent = None
    /\ needs_review' = TRUE
    /\ notes' = IF notes[Len(notes)] = "Overpass OK"
                THEN Append(notes,
          "No entrance node; using POI location (likely centroid/site point)")
                ELSE notes
    /\ confidence' = IF notes[Len(notes)] = "Overpass OK" THEN 60 ELSE confidence
    /\ pc' = "final"
    /\ UNCHANGED <<df, input, idx, run, lat, lon, method, intent, nom, ent,
                   els, changelog, files, resp, clocks, logs>>
    /\ UNCHANGED aside

\* lines 160-164: else (no element, or the request failed)
NoEntrance ==
    /\ pc = "entrance"
    /\ ent = None
    /\ needs_review' = TRUE
    /\ notes' = Append(notes,
          "No entrance node; using POI location (likely centroid/site point)")
    /\ confidence' = 60
    /\ pc' = "final"
    /\ UNCHANGED <<df, input, idx, run, lat, lon, method, intent, nom, ent,
                   els, changelog, files, resp, clocks, logs>>
    /\ UNCHANGED aside

\* mutant: the final check replaces the notes instead of appending
FinalCheck_OverwritesNotes ==
    /\ pc = "final"
    /\ IF lat = None \/ lon = None
       THEN /\ needs_review' = TRUE
            /\ notes' = <<"Missing coordinates">>
            /\ confidence' = 0
       ELSE IF ~is_plausible_uk(lat[1], lon[1])
       THEN /\ needs_review' = TRUE
            /\ notes' = <<"Implausible UK bounds">>
            /\ confidence' = Min(confidence, 20)
       ELSE UNCHANGED <<needs_review, notes, confidence>>
    /\ pc' = "write"
    /\ UNCHANGED <<df, input, idx, run, lat, lon, method, intent, nom, ent,
                   els, changelog, files, resp, clocks, logs>>
    /\ UNCHANGED aside

\* mutant: a point outside the box loses its entrance intent
FinalCheck_ResetsIntent ==
    /\ pc = "final"
    /\ IF lat = None \/ lon = None
       THEN /\ needs_review' = TRUE
            /\ notes' = Append(notes, "Missing coordinates")
            /\ confidence' = 0
            /\ intent' = intent
       ELSE IF ~is_plausible_uk(lat[1], lon[1])
       THEN /\ needs_review' = TRUE
            /\ notes' = Append(notes, "Implausible UK bounds")
            /\ confidence' = Min(confidence, 20)
            /\ intent' = "public_entrance"
       ELSE UNCHANGED <<needs_review, notes, confidence, intent>>
    /\ pc' = "write"
    /\ UNCHANGED <<df, input, idx, run, lat, lon, method, nom, ent,
                   els, changelog, files, resp, clocks, logs>>
    /\ UNCHANGED aside

\* mutant: the bounding-box branch is missing
FinalCheck_NoBox ==
    /\ pc = "final"
    /\ IF lat = None \/ lon = None
       THEN /\ needs_review' = TRUE
            /\ notes' = Append(notes, "Missing coordinates")
            /\ confidence' = 0
       ELSE UNCHANGED <<needs_review, notes, confidence>>
    /\ pc' = "write"
    /\ UNCHANGED <<df, input, idx, run, lat, lon, method, intent, nom, ent,
                   els, changelog, files, resp, clocks, logs>>
    /\ UNCHANGED aside

\* lines 173-181: final plausibility check
FinalCheck ==
    /\ pc = "final"
    /\ IF lat = None \/ lon = None
       THEN /\ needs_review' = TRUE
            /\ notes' = Append(notes, "Missing coordinates")
            /\ confidence' = 0
       ELSE IF ~is_plausible_uk(lat[1], lon[1])
       THEN /\ needs_review' = TRUE
            /\ notes' = Append(notes, "Implausible UK bounds")
            /\ confidence' = Min(confidence, 20)
       ELSE UNCHANGED <<needs_review, notes, confidence>>
    /\ pc' = "write"
    /\ UNCHANGED <<df, input, idx, run, lat, lon, method, intent, nom, ent,
                   els, changelog, files, resp, clocks, logs>>
    /\ UNCHANGED aside

\* lines 184-192: the row's columns after df.at[idx, ...] = ...
written_row(row) ==
    [row EXCEPT !.lat_corrected = lat,
                !.lon_corrected = lon,
                !.point_intent = Some(intent),
                !.correction_method = Some(method),
                !.confidence_score = Some(confidence),
                !.change_note = Some(join(notes)),
                !.source_checked = Some("OSM:Nominatim; OSM:Overpass"),
                !.last_verified_date = Some(today),
                !.needs_manual_review = Some(needs_review)]

\* lines 194-209: the changelog dict of the row
changelog_entry(row) ==
    [id |-> row.id,
     name |-> strip(row.name),
     anchor_type |-> strip(row.anchor_type),
     subtype |-> strip(row.subtype),
     postcode |-> strip(row.postcode),
     old_lat |-> row.latitude,
     old_lon |-> row.longitude,
     new_lat |-> lat,
     new_lon |-> lon,
     method |-> method,
     confidence |-> confidence,
     notes |-> join(notes)]

\* mutant: an unresolved row is written but gets no changelog entry
WriteResults_SkipsUnresolved ==
    /\ pc = "write"
    /\ df' = [df EXCEPT ![idx] = written_row(df[idx])]
    /\ changelog' = IF method = "no_match" THEN changelog
                    ELSE Append(changelog, changelog_entry(df[idx]))
    /\ idx' = idx + 1
    /\ pc' = "loop"
    /\ noteLog' = Append(noteLog, notes)
    /\ UNCHANGED <<input, run, locals, nom, ent, els, files, resp, clocks,
                   reqLog>>
    /\ UNCHANGED aside

\* lines 183-209: write the results into the row, append to the changelog,
\* and go on to the next row
WriteResults ==
    /\ pc = "write"
    /\ df' = [df EXCEPT ![idx] = written_row(df[idx])]
    /\ changelog' = Append(changelog, changelog_entry(df[idx]))
    /\ idx' = idx + 1
    /\ pc' = "loop"
    /\ noteLog' = Append(noteLog, notes)
    /\ UNCHANGED <<input, run, locals, nom, ent, els, files, resp, clocks,
                   reqLog>>
    /\ UNCHANGED aside

\* lines 211-212: the loop is over; both files are written
WriteCsv ==
    /\ pc = "loop"
    /\ idx > Len(df)
    /\ outCsv' = df
    /\ logCsv' = changelog
    /\ pc' = "done"
    /\ UNCHANGED <<df, input, idx, run, locals, nom, ent, els, changelog,
                   prevOut, resp, clocks, logs>>
    /\ UNCHANGED aside

\* The output of a run read back as the input of the next one, the corrected
\* coordinates taken as the new originals; the long-mode columns are present
\* in the file and keep their values (lines 80-97).
reread(rows) ==
    [i \in 1..Len(rows) |->
        [rows[i] EXCEPT !.latitude = rows[i].lat_corrected,
                        !.longitude = rows[i].lon_corrected]]

\* main() started again on its own output, the services answering as before
Rerun ==
    /\ pc = "done"
    /\ run = 1
    /\ run' = 2
    /\ prevOut' = outCsv
    /\ df' = reread(outCsv)
    /\ input' = df'
    /\ idx' = 1
    /\ changelog' = <<>>
    /\ outCsv' = <<>> /\ logCsv' = <<>>
    /\ sinceNom' = Saturation /\ sinceOvp' = Saturation
    /\ gapNom' = Saturation /\ gapOvp' = Saturation
    /\ reqLog' = <<>> /\ noteLog' = <<>>
    /\ pc' = "loop"
    /\ UNCHANGED <<locals, nom, ent, els, resp>>
    /\ UNCHANGED aside

Next ==
    \/ BeginRow
    \/ NominatimOK
    \/ NominatimFailed
    \/ PoiMatch
    \/ NoMatch
    \/ OverpassOK
    \/ OverpassFailed
    \/ EntranceFound
    \/ NoEntrance
    \/ FinalCheck
    \/ WriteResults
    \/ WriteCsv
    \/ Rerun

Spec == Init /\ [][Next]_vars

----------------------------------------------------------------------------
(* overpass_find_entrance on its own: every response of up to MaxEls nodes *)

InitEntrance ==
    /\ els \in SeqsUpTo(Elements, MaxEls)
    /\ ent = None
    /\ pc = "find"
    /\ df = <<>> /\ input = <<>> /\ idx = 1 /\ run = 1
    /\ lat = None /\ lon = None /\ confidence = 0 /\ needs_review = FALSE
    /\ method = "fallback" /\ intent = "public_entrance" /\ notes = <<>>
    /\ nom = None
    /\ changelog = <<>>
    /\ outCsv = <<>> /\ logCsv = <<>> /\ prevOut = <<>>
    /\ resp = <<>>
    /\ sinceNom = Saturation /\ sinceOvp = Saturation
    /\ gapNom = Saturation /\ gapOvp = Saturation
    /\ reqLog = <<>> /\ noteLog = <<>>
    /\ AsideIdle

\* lines 61-76 applied to the elements of the response
FindEntrance ==
    /\ pc = "find"
    /\ ent' = find_entrance(els)
    /\ pc' = "found"
    /\ UNCHANGED <<df, input, idx, run, locals, nom, els, changelog, files,
                   resp, clocks, logs>>
    /\ UNCHANGED aside

NextEntrance == FindEntrance

SpecEntrance == InitEntrance /\ [][NextEntrance]_vars

----------------------------------------------------------------------------
(* Properties *)

\* rows already written in this run
Processed == 1..(idx - 1)

Has(ns, n) == \E k \in 1..Len(ns) : ns[k] = n

\* C1: every processed row whose written correction_method is "no_match" has
\* no corrected coordinates, confidence_score 0 and needs_manual_review true,
\* whatever the two services answered.
C1_NoMatchRow ==
    \A i \in Processed :
        df[i].correction_method = Some("no_match") =>
            /\ df[i].lat_corrected = None
            /\ df[i].lon_corrected = None
            /\ df[i].confidence_score = Some(0)
            /\ df[i].needs_manual_review = Some(TRUE)

\* a no_match row written after a row that got a point, for an empty result
C1_Witness ==
    \E i \in Processed :
        /\ i > 1
        /\ df[i - 1].lat_corrected # None
        /\ resp[i].nom = OkResponse(<<>>)
        /\ df[i].correction_method = Some("no_match")

\* C2: a processed row whose written point has both coordinates and lies
\* outside the plausibility box has confidence_score <= 20 and
\* needs_manual_review true, whichever method produced the point; and a point
\* the services produced is written even when it is outside the box.
ResolvedPoint(i) ==
    IF resp[i].ovp.status = "ok" /\ resp[i].ovp.body # <<>>
    THEN LET e == find_entrance(resp[i].ovp.body)[1] IN <<e.lat, e.lon>>
    ELSE IF resp[i].nom.status = "ok" /\ resp[i].nom.body # <<>>
    THEN <<float(resp[i].nom.body[1].lat), float(resp[i].nom.body[1].lon)>>
    ELSE <<>>

C2_ImplausibleRow ==
    \A i \in Processed :
        /\ ( /\ df[i].lat_corrected # None
             /\ df[i].lon_corrected # None
             /\ ~is_plausible_uk(df[i].lat_corrected[1], df[i].lon_corrected[1]) )
           => /\ df[i].confidence_score[1] <= 20
              /\ df[i].needs_manual_review = Some(TRUE)
        /\ ResolvedPoint(i) # <<>> =>
              /\ df[i].lat_corrected = Some(ResolvedPoint(i)[1])
              /\ df[i].lon_corrected = Some(ResolvedPoint(i)[2])

\* an entrance outside the box written with method overpass_entrance
C2_Witness ==
    \E i \in Processed :
        /\ df[i].correction_method = Some("overpass_entrance")
        /\ df[i].lat_corrected = Some(611)
        /\ df[i].confidence_score = Some(20)

\* C3: when the run ends, the changelog and the output each hold exactly one
\* entry per input row, in input order (the i-th carries the i-th row's id);
\* while it runs, one changelog entry per row processed so far.
C3_OnePerRecord ==
    /\ pc \in {"loop", "nominatim", "poi", "overpass", "entrance", "final",
               "write"} =>
          /\ Len(changelog) = idx - 1
          /\ \A i \in Processed : changelog[i].id = input[i].id
    /\ pc = "done" =>
          /\ Len(logCsv) = Len(input)
          /\ Len(outCsv) = Len(input)
          /\ \A i \in 1..Len(input) :
                /\ logCsv[i].id = input[i].id
                /\ outCsv[i].id = input[i].id
                /\ outCsv[i].last_verified_date = Some(today)

\* a finished run over the longest input in which a request failed and a
\* lookup came back empty
C3_Witness ==
    /\ pc = "done"
    /\ Len(input) = MaxRecords
    /\ \E i, j \in 1..Len(input) :
          /\ resp[i].nom.status = "error"
          /\ resp[j].nom = OkResponse(<<>>)

\* C4 (as claimed): "no_match" and the note "No geocode match" are given only
\* when the POI service answered with zero results; a row whose POI request
\* failed gets the note "Nominatim failed: <cause>", the review flag and no
\* point, and is not given the zero-results outcome.
C4_OnlyOnEmptyResult ==
    \A i \in Processed :
        /\ ( \/ df[i].correction_method = Some("no_match")
             \/ Has(noteLog[i], "No geocode match") )
           => resp[i].nom = OkResponse(<<>>)
        /\ resp[i].nom.status = "error" =>
              /\ Has(noteLog[i], "Nominatim failed: " \o resp[i].nom.cause)
              /\ df[i].needs_manual_review = Some(TRUE)
              /\ df[i].lat_corrected = None /\ df[i].lon_corrected = None
              /\ df[i].correction_method # Some("no_match")
              /\ ~Has(noteLog[i], "No geocode match")

\* C4 (amended): "no_match" and the note "No geocode match" are given exactly
\* when the POI lookup yielded no candidate, that is when the service answered
\* with zero results and also when the request failed; the two cases differ
\* only in the first note, "Nominatim failed: <cause>" for a failed request
\* (with the review flag and no point) and "Nominatim OK" for an empty result.
NoCandidate(i) ==
    resp[i].nom.status = "error" \/ resp[i].nom = OkResponse(<<>>)

C4_NoCandidate ==
    \A i \in Processed :
        /\ df[i].change_note = Some(join(noteLog[i]))
        /\ df[i].correction_method = Some("no_match") <=> NoCandidate(i)
        /\ Has(noteLog[i], "No geocode match") <=> NoCandidate(i)
        /\ resp[i].nom.status = "error" =>
              /\ noteLog[i][1] = "Nominatim failed: " \o resp[i].nom.cause
              /\ ~Has(noteLog[i], "Nominatim OK")
              /\ df[i].needs_manual_review = Some(TRUE)
              /\ df[i].lat_corrected = None /\ df[i].lon_corrected = None
        /\ resp[i].nom.status = "ok" =>
              /\ noteLog[i][1] = "Nominatim OK"
              /\ \A c \in Causes : ~Has(noteLog[i], "Nominatim failed: " \o c)

\* a row whose POI request failed, written as no_match
C4_Witness ==
    \E i \in Processed :
        /\ resp[i].nom.status = "error"
        /\ df[i].correction_method = Some("no_match")
        /\ Has(noteLog[i], "No geocode match")

\* C5 (as claimed): between two consecutive requests to the same service at
\* least the throttle interval elapses, whatever the outcome of the earlier
\* request.
C5_ThrottleEveryRequest ==
    /\ gapNom >= NOMINATIM_SLEEP_S
    /\ gapOvp >= OVERPASS_SLEEP_S

\* C6: the sentinel "fallback" is never written: the correction_method of
\* every processed row, and the method of its changelog entry, is one of
\* overpass_entrance, nominatim_poi, no_match.
Methods == {"overpass_entrance", "nominatim_poi", "no_match"}

C6_NoSentinel ==
    /\ \A i \in Processed :
          \E m \in Methods : df[i].correction_method = Some(m)
    /\ \A i \in 1..Len(changelog) : changelog[i].method \in Methods

\* a row written after its POI request failed, and one after an Overpass
\* failure
C6_Witness ==
    \E i, j \in Processed :
        /\ resp[i].nom.status = "error"
        /\ resp[j].ovp.status = "error"

\* C7: a processed row written with method overpass_entrance has confidence
\* 85 when the entrance is inside the plausibility box, and otherwise 20.
C7_EntranceConfidence ==
    \A i \in Processed :
        df[i].correction_method = Some("overpass_entrance") =>
            /\ df[i].lat_corrected # None /\ df[i].lon_corrected # None
            /\ IF is_plausible_uk(df[i].lat_corrected[1], df[i].lon_corrected[1])
               THEN df[i].confidence_score = Some(85)
               ELSE df[i].confidence_score = Some(20)

\* an entrance inside the box and one outside it, both written
C7_Witness ==
    \E i, j \in Processed :
        /\ df[i].correction_method = Some("overpass_entrance")
        /\ df[i].confidence_score = Some(85)
        /\ df[j].correction_method = Some("overpass_entrance")
        /\ df[j].confidence_score = Some(20)

\* C8: for a non-empty list overpass_find_entrance returns the first element
\* in the service's order among those of minimal score (0: entrance = main,
\* 1: another entrance value, 2: no entrance tag); for an empty list, None.
Rank(el) ==
    CASE "entrance" \in DOMAIN el.tags /\ el.tags["entrance"] = "main" -> 0
      [] "entrance" \in DOMAIN el.tags /\ el.tags["entrance"] # "main" -> 1
      [] OTHER -> 2

C8_BestEntrance ==
    pc = "found" =>
        IF els = <<>> THEN ent = None
        ELSE /\ ent # None
             /\ \E k \in 1..Len(els) :
                   /\ \A j \in 1..Len(els) : Rank(els[k]) <= Rank(els[j])
                   /\ \A j \in 1..(k - 1) : Rank(els[j]) > Rank(els[k])
                   /\ ent[1].el = els[k]
                   /\ ent[1].lat = els[k].lat
                   /\ ent[1].lon = els[k].lon

\* the three scores in the order 2, 0, 1; and a tie between two different
\* nodes of score 1 behind a node of score 2
C8_Witness ==
    /\ pc = "found"
    /\ \/ els = <<ElHighway, ElMain, ElYes>> /\ ent[1].el = ElMain
       \/ els = <<ElHighway, ElService, ElYes>> /\ ent[1].el = ElService

\* C9: the run repeated on its own output, the corrected coordinates taken
\* as the originals and the services answering as before, writes the same
\* lat_corrected, lon_corrected, point_intent, correction_method,
\* confidence_score, change_note and needs_manual_review for every row.
SameCorrection(a, b) ==
    /\ a.lat_corrected = b.lat_corrected
    /\ a.lon_corrected = b.lon_corrected
    /\ a.point_intent = b.point_intent
    /\ a.correction_method = b.correction_method
    /\ a.confidence_score = b.confidence_score
    /\ a.change_note = b.change_note
    /\ a.needs_manual_review = b.needs_manual_review

C9_Idempotent ==
    /\ run = 2 => \A i \in Processed : SameCorrection(df[i], prevOut[i])
    /\ (run = 2 /\ pc = "done") =>
          /\ Len(outCsv) = Len(prevOut)
          /\ \A i \in 1..Len(outCsv) : SameCorrection(outCsv[i], prevOut[i])

\* the re-run finished on the longest input, with a row whose original
\* coordinates are now the first run's corrected ones and a row without match
C9_Witness ==
    /\ run = 2 /\ pc = "done"
    /\ Len(outCsv) = MaxRecords
    /\ \E i, j \in 1..Len(outCsv) :
          /\ input[i].latitude # None
          /\ input[i].latitude = prevOut[i].lat_corrected
          /\ input[i].change_note # None
          /\ outCsv[j].correction_method = Some("no_match")

\* C10: a failed request never ends the run and always marks the row: a row
\* whose POI or Overpass request raised is written with needs_manual_review
\* true and has its changelog entry; the run can always go on until every row
\* is processed and both files are written.
C10_FailureRecovered ==
    /\ \A i \in Processed :
          (resp[i].nom.status = "error" \/ resp[i].ovp.status = "error") =>
              /\ df[i].needs_manual_review = Some(TRUE)
              /\ df[i].last_verified_date = Some(today)
              /\ i <= Len(changelog) /\ changelog[i].id = df[i].id
    /\ pc = "done" => idx = Len(input) + 1 /\ Len(outCsv) = Len(input)
    /\ pc # "done" => ENABLED Next

\* a row processed after a row whose Overpass request failed, in a run in
\* which a POI request failed too
C10_Witness ==
    /\ pc = "done"
    /\ \E i, j \in 1..Len(input) :
          /\ i < Len(input)
          /\ resp[i].ovp.status = "error"
          /\ resp[j].nom.status = "error"


\* C11: when the POI lookup matched and the Overpass request failed, the row
\* keeps the POI point as its corrected coordinates with method nominatim_poi,
\* needs_manual_review is true and the change note contains "Overpass failed";
\* when that point is also outside the plausibility box the note contains
\* "Implausible UK bounds" as well, after "Overpass failed", and the
\* confidence is at most 20.
PoiThenOverpassFailure(i) ==
    /\ resp[i].nom.status = "ok" /\ resp[i].nom.body # <<>>
    /\ resp[i].ovp.status = "error"

C11_PoiKeptOnOverpassFailure ==
    \A i \in Processed :
        PoiThenOverpassFailure(i) =>
            LET la == float(resp[i].nom.body[1].lat)
                lo == float(resp[i].nom.body[1].lon)
                failed == "Overpass failed: " \o resp[i].ovp.cause
            IN  /\ df[i].lat_corrected = Some(la)
                /\ df[i].lon_corrected = Some(lo)
                /\ changelog[i].new_lat = Some(la)
                /\ changelog[i].new_lon = Some(lo)
                /\ df[i].correction_method = Some("nominatim_poi")
                /\ df[i].needs_manual_review = Some(TRUE)
                /\ df[i].change_note = Some(join(noteLog[i]))
                /\ Has(noteLog[i], failed)
                /\ ~is_plausible_uk(la, lo) =>
                      /\ \E a, b \in 1..Len(noteLog[i]) :
                            /\ a < b
                            /\ noteLog[i][a] = failed
                            /\ noteLog[i][b] = "Implausible UK bounds"
                      /\ df[i].confidence_score[1] <= 20

\* a POI match outside the box whose Overpass request failed, and one inside
C11_Witness ==
    \E i, j \in Processed :
        /\ PoiThenOverpassFailure(i)
        /\ resp[i].nom.body = <<NomOutside>>
        /\ PoiThenOverpassFailure(j)
        /\ resp[j].nom.body = <<NomNewcastle>>


\* C13 (as claimed): confidence 60 and the note "No entrance node; using POI
\* location (likely centroid/site point)" are given only when the Overpass
\* request succeeded with zero features; a row whose Overpass request failed
\* keeps the POI-match confidence 65 (before the plausibility downgrade) and
\* does not get that note.
NoEntranceNote == "No entrance node; using POI location (likely centroid/site point)"

WrittenPlausible(i) ==
    /\ df[i].lat_corrected # None
    /\ df[i].lon_corrected # None
    /\ is_plausible_uk(df[i].lat_corrected[1], df[i].lon_corrected[1])

C13_OnlyOnEmptyResponse ==
    \A i \in Processed :
        /\ Has(noteLog[i], NoEntranceNote) => resp[i].ovp = OkResponse(<<>>)
        /\ resp[i].ovp.status = "error" =>
              /\ ~Has(noteLog[i], NoEntranceNote)
              /\ df[i].confidence_score =
                    IF WrittenPlausible(i) THEN Some(65) ELSE Some(20)

\* C13 (amended): confidence 60 and the note "No entrance node; using POI
\* location (likely centroid/site point)" are given exactly when the POI
\* lookup matched and no entrance was obtained, that is when the Overpass
\* request succeeded with zero features and also when it failed; a row whose
\* Overpass request failed has the note "Overpass failed: <cause>" in place
\* of "Overpass OK" before it and ends with confidence 60 (20 when the point
\* is outside the plausibility box), never 65.
NoEntranceObtained(i) ==
    resp[i].ovp.status = "error" \/ resp[i].ovp = OkResponse(<<>>)

C13_NoEntranceOutcome ==
    \A i \in Processed :
        /\ Has(noteLog[i], NoEntranceNote) <=> NoEntranceObtained(i)
        /\ NoEntranceObtained(i) =>
              /\ df[i].change_note = Some(join(noteLog[i]))
              /\ df[i].confidence_score =
                    IF WrittenPlausible(i) THEN Some(60) ELSE Some(20)
              /\ changelog[i].confidence = df[i].confidence_score[1]
        /\ resp[i].ovp.status = "error" =>
              /\ Has(noteLog[i], "Overpass failed: " \o resp[i].ovp.cause)
              /\ ~Has(noteLog[i], "Overpass OK")
        /\ resp[i].ovp.status = "ok" =>
              /\ Has(noteLog[i], "Overpass OK")
              /\ \A c \in Causes : ~Has(noteLog[i], "Overpass failed: " \o c)

\* a row inside the box whose Overpass request failed, written with 60 and
\* the note
C13_Witness ==
    \E i \in Processed :
        /\ resp[i].ovp.status = "error"
        /\ WrittenPlausible(i)
        /\ df[i].confidence_score = Some(60)
        /\ Has(noteLog[i], NoEntranceNote)


\* C14: the written point_intent is decided by the entrance stage alone:
\* main_entrance exactly when an entrance was found whose entrance tag is
\* "main", entrance_nearby exactly when one was found with another or no
\* entrance tag, public_entrance exactly when none was found (POI failure,
\* no POI match, Overpass failure, zero features); the method is
\* overpass_entrance exactly when one was found, and neither is changed by a
\* failed plausibility check.
EntranceObtained(i) ==
    resp[i].ovp.status = "ok" /\ resp[i].ovp.body # <<>>

\* the entrance tag of the first node of least rank in the response
SelectedTag(i) ==
    LET b == resp[i].ovp.body
        k == CHOOSE k \in 1..Len(b) :
                /\ \A j \in 1..Len(b) : Rank(b[k]) <= Rank(b[j])
                /\ \A j \in 1..(k - 1) : Rank(b[j]) > Rank(b[k])
    IN  IF "entrance" \in DOMAIN b[k].tags THEN b[k].tags["entrance"]
        ELSE "(none)"

C14_IntentFromEntrance ==
    \A i \in Processed :
        /\ df[i].point_intent = Some("main_entrance") <=>
              (EntranceObtained(i) /\ SelectedTag(i) = "main")
        /\ df[i].point_intent = Some("entrance_nearby") <=>
              (EntranceObtained(i) /\ SelectedTag(i) # "main")
        /\ df[i].point_intent = Some("public_entrance") <=>
              ~EntranceObtained(i)
        /\ df[i].correction_method = Some("overpass_entrance") <=>
              EntranceObtained(i)

\* every intent written, a main entrance outside the box among them, and a
\* POI match outside the box left without entrance
C14_Witness ==
    /\ \E i \in Processed :
          /\ df[i].point_intent = Some("main_entrance")
          /\ ~WrittenPlausible(i)
          /\ df[i].confidence_score = Some(20)
    /\ \E i \in Processed :
          /\ df[i].point_intent = Some("public_entrance")
          /\ df[i].correction_method = Some("nominatim_poi")
          /\ ~WrittenPlausible(i)


\* C15: within one row the POI service is requested exactly once and the
\* Overpass service at most once, only after the POI request of the same row
\* returned a match (never after a POI failure or an empty result); no request
\* is repeated after a failure; every request of a row is sent before any
\* request of the next row.
Requests(service, i) ==
    {k \in 1..Len(reqLog) : reqLog[k] = <<service, i>>}

PoiMatched(i) == resp[i].nom.status = "ok" /\ resp[i].nom.body # <<>>

C15_CallOrder ==
    /\ \A i \in Processed :
          /\ Cardinality(Requests("nominatim", i)) = 1
          /\ Cardinality(Requests("overpass", i)) = IF PoiMatched(i) THEN 1 ELSE 0
          /\ \A a \in Requests("nominatim", i), b \in Requests("overpass", i) :
                a < b
    /\ \A k \in 1..Len(reqLog) :
          /\ reqLog[k][2] \in 1..Len(input) /\ reqLog[k][2] <= idx
          /\ \A l \in 1..(k - 1) : reqLog[l][2] <= reqLog[k][2]
          /\ Cardinality(Requests(reqLog[k][1], reqLog[k][2])) = 1
          /\ reqLog[k][1] = "overpass" =>
                /\ k > 1
                /\ reqLog[k - 1] = <<"nominatim", reqLog[k][2]>>
                /\ PoiMatched(reqLog[k][2])

\* a finished run in which a failed POI request is followed by the next
\* row's POI request, and an Overpass request failed
C15_Witness ==
    /\ pc = "done"
    /\ \E k \in 1..Len(reqLog) :
          /\ k > 1
          /\ reqLog[k][1] = "nominatim"
          /\ reqLog[k - 1][1] = "nominatim"
          /\ resp[reqLog[k - 1][2]].nom.status = "error"
    /\ \E i \in 1..Len(input) : resp[i].ovp.status = "error"


\* C16: while a row is processed its note list only grows: no step removes
\* or replaces an earlier note; in the final note list the POI-stage notes
\* come before the entrance-stage notes, which come before the notes of the
\* final check; the written change_note is the space-joined list and the
\* changelog notes string equals it.
IsPrefix(a, b) ==
    /\ Len(a) <= Len(b)
    /\ \A k \in 1..Len(a) : a[k] = b[k]

NoteStage(n) ==
    IF \/ n \in {"Nominatim OK", "Nominatim POI match", "No geocode match"}
       \/ \E c \in Causes : n = "Nominatim failed: " \o c
    THEN 1
    ELSE IF \/ n \in {"Overpass OK", "Entrance node found", NoEntranceNote}
            \/ \E c \in Causes : n = "Overpass failed: " \o c
    THEN 2
    ELSE IF n \in {"Missing coordinates", "Implausible UK bounds"}
    THEN 3
    ELSE 0

InStageOrder(ns) ==
    /\ \A k \in 1..Len(ns) : NoteStage(ns[k]) \in 1..3
    /\ \A k \in 1..Len(ns) : \A l \in 1..(k - 1) :
          /\ NoteStage(ns[l]) <= NoteStage(ns[k])
          /\ ns[l] # ns[k]

C16_NotesState ==
    /\ InStageOrder(notes)
    /\ \A i \in Processed :
          /\ InStageOrder(noteLog[i])
          /\ df[i].change_note = Some(join(noteLog[i]))
          /\ changelog[i].notes = join(noteLog[i])
    /\ pc = "write" => Len(notes) >= 2

C16_NotesOnlyGrow ==
    /\ []C16_NotesState
    /\ [][ /\ pc # "loop" => IsPrefix(notes, notes')
           /\ pc = "write" => noteLog' = Append(noteLog, notes) ]_vars

\* a row written with notes of all three stages, four notes long
C16_Witness ==
    \E i \in Processed :
        /\ Len(noteLog[i]) >= 4
        /\ NoteStage(noteLog[i][1]) = 1
        /\ \E k \in 1..Len(noteLog[i]) : NoteStage(noteLog[i][k]) = 2
        /\ NoteStage(noteLog[i][Len(noteLog[i])]) = 3
        /\ df[i].change_note = Some(join(noteLog[i]))


\* C17: the written needs_manual_review is false exactly when the POI request
\* succeeded with a match, the Overpass request succeeded with at least one
\* feature and the selected entrance is inside the plausibility box; it is
\* true in every other combination of outcomes.
C17_ReviewFlag ==
    \A i \in Processed :
        /\ df[i].needs_manual_review \in {Some(TRUE), Some(FALSE)}
        /\ df[i].needs_manual_review = Some(FALSE) <=>
              /\ PoiMatched(i)
              /\ EntranceObtained(i)
              /\ df[i].correction_method = Some("overpass_entrance")
              /\ WrittenPlausible(i)

\* a row written without the flag, and flagged rows for an empty Overpass
\* response and for an entrance outside the box
C17_Witness ==
    /\ \E i \in Processed : df[i].needs_manual_review = Some(FALSE)
    /\ \E i \in Processed :
          /\ df[i].needs_manual_review = Some(TRUE)
          /\ \/ resp[i].ovp = OkResponse(<<>>)
             \/ EntranceObtained(i) /\ ~WrittenPlausible(i)

\* C18: the written confidence_score is one of 0, 20, 60, 85; the POI-match
\* value 65 is never written, so a row with method nominatim_poi ends with 60
\* (point inside the box) or 20 (point outside).
C18_ConfidenceValues ==
    /\ \A i \in Processed :
          /\ \E c \in {0, 20, 60, 85} : df[i].confidence_score = Some(c)
          /\ changelog[i].confidence \in {0, 20, 60, 85}
          /\ df[i].correction_method = Some("nominatim_poi") =>
                df[i].confidence_score =
                    IF WrittenPlausible(i) THEN Some(60) ELSE Some(20)
    /\ pc = "write" => confidence # 65

\* the 65 of the POI match is on its way (the Overpass request has failed)
\* in a run that has already written a nominatim_poi row
C18_Witness ==
    /\ pc = "entrance"
    /\ confidence = 65
    /\ resp[idx].ovp.status = "error"
    /\ \E i \in Processed :
          /\ df[i].correction_method = Some("nominatim_poi")
          /\ df[i].confidence_score = Some(60)


----------------------------------------------------------------------------
(* is_plausible_uk on its own: a grid of points around the four bounds *)

\* the variables of main(), at rest
MainIdle ==
    /\ df = <<>> /\ input = <<>> /\ idx = 1 /\ run = 1
    /\ confidence = 0 /\ needs_review = FALSE
    /\ method = "fallback" /\ intent = "public_entrance" /\ notes = <<>>
    /\ nom = None /\ ent = None /\ els = <<>>
    /\ changelog = <<>>
    /\ outCsv = <<>> /\ logCsv = <<>> /\ prevOut = <<>>
    /\ resp = <<>>
    /\ sinceNom = Saturation /\ sinceOvp = Saturation
    /\ gapNom = Saturation /\ gapOvp = Saturation
    /\ reqLog = <<>> /\ noteLog = <<>>

\* the box of line 33, in tenths of a degree
BoxSouth == 498
BoxNorth == 609
BoxWest == -86
BoxEast == 18

\* distance from a bound, in tenths of a degree, up to which points are tried
Margin == 2

Around(v) == (v - Margin)..(v + Margin)
LatGrid == Around(BoxSouth) \cup Around(BoxNorth)
LonGrid == Around(BoxWest) \cup Around(BoxEast)

InitPlausible ==
    /\ \E la \in LatGrid : lat = Some(la)
    /\ \E lo \in LonGrid : lon = Some(lo)
    /\ plausible = None
    /\ pc = "check"
    /\ MainIdle
    /\ script = "" /\ total = 0 /\ upI = 0
    /\ txn = <<>> /\ committed = <<>> /\ sent = <<>>
    /\ conn = "none" /\ failedBatch = 0

\* lines 32-33 applied to the point
CheckPlausible ==
    /\ pc = "check"
    /\ plausible' = Some(is_plausible_uk(lat[1], lon[1]))
    /\ pc' = "checked"
    /\ UNCHANGED <<df, input, idx, run, locals, nom, ent, els, changelog,
                   files, resp, clocks, logs, upload>>

NextPlausible == CheckPlausible

SpecPlausible == InitPlausible /\ [][NextPlausible]_vars

\* C12: is_plausible_uk(lat, lon) is true exactly when 49.8 <= lat <= 60.9
\* and -8.6 <= lon <= 1.8, all four bounds inclusive, for every point of the
\* grid (the bounds themselves and the values just outside them included);
\* it gives an answer for every point.
C12_PlausibleBox ==
    /\ pc = "check" => ENABLED CheckPlausible
    /\ pc = "checked" =>
          /\ plausible \in {Some(TRUE), Some(FALSE)}
          /\ plausible = Some(TRUE) <=>
                /\ lat[1] >= BoxSouth /\ ~(lat[1] > BoxNorth)
                /\ lon[1] >= BoxWest /\ ~(lon[1] > BoxEast)

\* the north-west corner of the box, found inside
C12_Witness ==
    /\ pc = "checked"
    /\ lat = Some(BoxNorth) /\ lon = Some(BoxWest)
    /\ plausible = Some(TRUE)


----------------------------------------------------------------------------
(* The bulk upload scripts: upload() of upload_overture.py and run() of    *)
(* append_north_tyneside.py. Rows are numbered 1..total in input order.    *)

\* rows per batch: BATCH_SIZE is 500 in upload_overture.py and 1000 in
\* append_north_tyneside.py; the loop is the same for any size, and a small
\* one is taken here
BATCH_SIZE == 2

\* most rows a script has loaded
MaxRows == 5

Scripts == {"upload_overture", "append_north_tyneside"}

\* features / results: the rows loaded, in input order
Rows == [k \in 1..total |-> k]

\* xs[a:b]
slice(xs, a, b) == SubSeq(xs, a + 1, Min(b, Len(xs)))

\* batch = features[i:i + BATCH_SIZE]
Batch == slice(Rows, upI, upI + BATCH_SIZE)

InitUpload ==
    /\ script \in Scripts
    /\ total \in 0..MaxRows
    /\ upI = 0
    /\ txn = <<>> /\ committed = <<>> /\ sent = <<>>
    /\ conn = "none"
    /\ failedBatch = 0
    /\ pc = "connect"
    /\ plausible = None
    /\ lat = None /\ lon = None
    /\ MainIdle

\* upload_overture.py lines 24-41, append_north_tyneside.py lines 33-53:
\* connect and make sure the table is there; run() returns before
\* connecting when nothing was fetched
UploadConnect ==
    /\ pc = "connect"
    /\ IF script = "append_north_tyneside" /\ total = 0
       THEN /\ pc' = "end"
            /\ conn' = conn
       ELSE /\ pc' = "batch"
            /\ conn' = "open"
    /\ UNCHANGED <<df, input, idx, run, locals, nom, ent, els, changelog,
                   files, resp, clocks, logs, plausible, script, total, upI,
                   txn, committed, sent, failedBatch>>

\* lines 46-76: the next batch is cut and execute_values runs its statements
ExecuteOK ==
    /\ pc = "batch"
    /\ upI < total
    /\ txn' = Batch
    /\ sent' = Append(sent, Batch)
    /\ pc' = "commit"
    /\ UNCHANGED <<df, input, idx, run, locals, nom, ent, els, changelog,
                   files, resp, clocks, logs, plausible, script, total, upI,
                   committed, conn, failedBatch>>

\* lines 46-76: execute_values raises, after some of the batch's pages may
\* have been executed in the open transaction
ExecuteFailed ==
    /\ pc = "batch"
    /\ upI < total
    /\ \E k \in 0..(Len(Batch) - 1) : txn' = SubSeq(Batch, 1, k)
    /\ sent' = Append(sent, Batch)
    /\ pc' = "except"
    /\ UNCHANGED <<df, input, idx, run, locals, nom, ent, els, changelog,
                   files, resp, clocks, logs, plausible, script, total, upI,
                   committed, conn, failedBatch>>

\* line 77: conn.commit() succeeds; the loop goes on with the next offset
CommitOK ==
    /\ pc = "commit"
    /\ committed' = Append(committed, txn)
    /\ txn' = <<>>
    /\ upI' = upI + BATCH_SIZE
    /\ pc' = "batch"
    /\ UNCHANGED <<df, input, idx, run, locals, nom, ent, els, changelog,
                   files, resp, clocks, logs, plausible, script, total, sent,
                   conn, failedBatch>>

\* line 77: conn.commit() raises
CommitFailed ==
    /\ pc = "commit"
    /\ pc' = "except"
    /\ UNCHANGED <<df, input, idx, run, locals, nom, ent, els, changelog,
                   files, resp, clocks, logs, plausible, script, total, upI,
                   txn, committed, sent, conn, failedBatch>>

\* mutant: the except branch rolls back but does not leave the loop
Rollback_Continues ==
    /\ pc = "except"
    /\ txn' = <<>>
    /\ failedBatch' = Len(sent)
    /\ upI' = upI + BATCH_SIZE
    /\ pc' = "batch"
    /\ UNCHANGED <<df, input, idx, run, locals, nom, ent, els, changelog,
                   files, resp, clocks, logs, plausible, script, total,
                   committed, sent, conn>>

\* lines 79-83: except: conn.rollback(), then break
Rollback ==
    /\ pc = "except"
    /\ txn' = <<>>
    /\ failedBatch' = Len(sent)
    /\ pc' = "close"
    /\ UNCHANGED <<df, input, idx, run, locals, nom, ent, els, changelog,
                   files, resp, clocks, logs, plausible, script, total, upI,
                   committed, sent, conn>>

\* lines 85-86: the loop is over (exhausted, or left by break):
\* cur.close(), conn.close()
UploadClose ==
    /\ \/ pc = "batch" /\ upI >= total
       \/ pc = "close"
    /\ conn' = "closed"
    /\ pc' = "end"
    /\ UNCHANGED <<df, input, idx, run, locals, nom, ent, els, changelog,
                   files, resp, clocks, logs, plausible, script, total, upI,
                   txn, committed, sent, failedBatch>>

NextUpload ==
    \/ UploadConnect
    \/ ExecuteOK
    \/ ExecuteFailed
    \/ CommitOK
    \/ CommitFailed
    \/ Rollback
    \/ UploadClose

SpecUpload == InitUpload /\ [][NextUpload]_vars


\* C19: the batch loop sends the rows in consecutive batches of at most
\* BATCH_SIZE in input order, each row in exactly one batch; each batch is
\* committed on its own; on the first batch that raises, that batch is rolled
\* back, no later batch is attempted, the batches committed before it stay
\* committed, and the connection is still closed.
RECURSIVE Flat(_)
Flat(bs) == IF bs = <<>> THEN <<>> ELSE bs[1] \o Flat(Tail(bs))

C19_BatchesState ==
    /\ \A b \in 1..Len(sent) : Len(sent[b]) \in 1..BATCH_SIZE
    /\ \A b \in 1..(Len(sent) - 1) : Len(sent[b]) = BATCH_SIZE
    /\ Len(Flat(sent)) <= total
    /\ \A k \in 1..Len(Flat(sent)) : Flat(sent)[k] = k
    /\ IsPrefix(committed, sent)
    /\ Len(committed) >= Len(sent) - 1
    /\ Len(txn) > 0 => pc \in {"commit", "except"}
    /\ failedBatch # 0 =>
          /\ failedBatch = Len(sent)
          /\ Len(committed) = failedBatch - 1
          /\ txn = <<>>
          /\ pc \in {"close", "end"}
    /\ pc = "end" =>
          /\ txn = <<>>
          /\ conn \in {"closed", "none"}
          /\ conn = "none" => sent = <<>>
          /\ failedBatch = 0 => Len(Flat(committed)) = total /\ committed = sent

====
